---------------------------- MODULE Spec2Model ----------------------------
(***************************************************************************)
(* A model of the two front-ends of the repository:                        *)
(*   - the FamHack registration script (src/unnamed/part_001): email       *)
(*     validation, mocked OTP issuance and verification, team ids, the     *)
(*     registration record and the team rosters kept in localStorage;      *)
(*   - the Accio waitlist widget (src/landing/assets/js/accio-waitlist.js) *)
(*     and the public-config handler it talks to (src/unnamed/part_000).   *)
(*                                                                         *)
(* JavaScript strings are sequences of one-character strings, so that      *)
(* trim, toLowerCase, endsWith, charAt and the regular expressions are     *)
(* computed character by character.  null is the empty sequence: no string *)
(* field of the program ever holds '' where the code tests it for          *)
(* falsiness (both are falsy).                                             *)
(***************************************************************************)
EXTENDS Integers, Sequences, FiniteSets, TLC

VARIABLES
  vInput,          \* validateEmail: the argument of the call under test
  vResult,         \* validateEmail: <<>> before the call, <<returned value>> after
  state,           \* FamHack.state: currentEmail, teamId, isTeamLeader
  dom,             \* the registration page's controls
  page,            \* window.location of the loaded document, and whether it is leaving
  lsRegistration,  \* localStorage item famhack_registration: <<>> or <<serialised record>>
  lsTeams,         \* localStorage items famhack_team_<teamId>: teamId -> serialised roster
  timeouts,        \* pending setTimeout callbacks, in registration order
  intervals,       \* running setInterval countdown closures, in registration order
  now,             \* the last reading of Date.now()
  loads,           \* documents loaded so far in this browser profile
  session,         \* history of this document: what was seeded, what verifyOTP resolved with
  wl               \* the waitlist widget and the requests it has in flight

valVars == <<vInput, vResult>>
regVars == <<state, dom, page, lsRegistration, lsTeams, timeouts, intervals, now,
             loads, session>>
vars == <<vInput, vResult, state, dom, page, lsRegistration, lsTeams, timeouts,
          intervals, now, loads, session, wl>>

null == <<>>

-----------------------------------------------------------------------------
(* String primitives of the JavaScript runtime.                            *)

UpperCase == <<"A","B","C","D","E","F","G","H","I","J","K","L","M",
               "N","O","P","Q","R","S","T","U","V","W","X","Y","Z">>
LowerCase == <<"a","b","c","d","e","f","g","h","i","j","k","l","m",
               "n","o","p","q","r","s","t","u","v","w","x","y","z">>
DigitChars == {"0","1","2","3","4","5","6","7","8","9"}
WhiteSpace == {" ", "\t", "\n"}

toLowerCaseChar(c) ==
  IF \E i \in 1..26 : UpperCase[i] = c
    THEN LowerCase[CHOOSE i \in 1..26 : UpperCase[i] = c]
    ELSE c

toLowerCase(s) == [i \in 1..Len(s) |-> toLowerCaseChar(s[i])]

trim(s) ==
  LET keep == {i \in 1..Len(s) : s[i] \notin WhiteSpace}
      lo == CHOOSE i \in keep : \A j \in keep : i <= j
      hi == CHOOSE i \in keep : \A j \in keep : j <= i
  IN IF keep = {} THEN <<>> ELSE SubSeq(s, lo, hi)

endsWith(s, suffix) ==
  /\ Len(s) >= Len(suffix)
  /\ SubSeq(s, Len(s) - Len(suffix) + 1, Len(s)) = suffix

-----------------------------------------------------------------------------
(* FamHack.config                                                          *)

emailDomain == <<"@","e","d",".","a","c",".","u","k">>
otpLength == 6

(* validateEmail(email), for string arguments *)
validateEmail_NoLocalPartCheck(email) ==
  IF email = <<>> THEN FALSE
  ELSE LET trimmed == toLowerCase(trim(email))
       IN endsWith(trimmed, emailDomain)

validateEmail(email) ==
  IF email = <<>> THEN FALSE
  ELSE LET trimmed == toLowerCase(trim(email))
       IN endsWith(trimmed, emailDomain) /\ Len(trimmed) > Len(emailDomain)

-----------------------------------------------------------------------------
(* Bounds of the model.                                                    *)

MaxLoads == 2        \* documents loaded in one browser profile
MaxClock == 1        \* Date.now() takes the values 0..MaxClock
MaxTimeouts == 2     \* setTimeout callbacks pending at once
MaxIntervals == 2    \* countdowns started and not yet finished at once
otpResendDelay == 2  \* config.otpResendDelay (30 in the source), the configurable countdown length

(* Delays of the mocked calls, in milliseconds *)
sendOTPDelay == 1500
verifyOTPDelay == 1000

-----------------------------------------------------------------------------
(* generateTeamId(): eight draws of Math.floor(Math.random() * chars.length) *)

chars == UpperCase \o <<"0","1","2","3","4","5","6","7","8","9">>
teamIdLength == 8

RandomDraws == { <<0, 1, 2, 3, 27, 28, 29, 30>>, <<25, 25, 25, 25, 35, 35, 35, 35>> }

RECURSIVE generateTeamIdLoop(_, _, _, _)
generateTeamIdLoop(rnd, i, n, result) ==
  IF i < n
    THEN generateTeamIdLoop(rnd, i + 1, n, Append(result, chars[rnd[i + 1] + 1]))
    ELSE result

generateTeamId_SevenChars(rnd) == generateTeamIdLoop(rnd, 0, teamIdLength - 1, <<>>)

generateTeamId(rnd) == generateTeamIdLoop(rnd, 0, teamIdLength, <<>>)

-----------------------------------------------------------------------------
(* JSON.stringify / JSON.parse of the two stored shapes.  The text is the  *)
(* sequence of the object's <<key, value>> members in property order;      *)
(* parse looks every property up by its key.                               *)

prop(text, key) == (CHOOSE i \in 1..Len(text) : text[i][1] = key)

JSONstringifyRegistration(r) ==
  << <<"email", r.email>>, <<"teamId", r.teamId>>,
     <<"isTeamLeader", r.isTeamLeader>>, <<"timestamp", r.timestamp>> >>

JSONparseRegistration(text) ==
  [email        |-> text[prop(text, "email")][2],
   teamId       |-> text[prop(text, "teamId")][2],
   isTeamLeader |-> text[prop(text, "isTeamLeader")][2],
   timestamp    |-> text[prop(text, "timestamp")][2]]

JSONstringifyMember(m) ==
  << <<"email", m.email>>, <<"isLeader", m.isLeader>>, <<"joinedAt", m.joinedAt>> >>

JSONparseMember(text) ==
  [email    |-> text[prop(text, "email")][2],
   isLeader |-> text[prop(text, "isLeader")][2],
   joinedAt |-> text[prop(text, "joinedAt")][2]]

JSONstringifyMembers(ms) == [i \in 1..Len(ms) |-> JSONstringifyMember(ms[i])]
JSONparseMembers(text) == [i \in 1..Len(text) |-> JSONparseMember(text[i])]

(* localStorage.getItem(`famhack_team_${teamId}`): <<>> stands for the     *)
(* missing item (getItem returns null)                                     *)
hasTeamItem(teams, teamId) == teamId \in DOMAIN teams
setTeamItem(teams, teamId, text) ==
  [k \in DOMAIN teams \cup {teamId} |-> IF k = teamId THEN text ELSE teams[k]]

(* addTeamMember(member): the team items after the call *)
addTeamMember_NoDuplicateCheck(teams, member) ==
  LET teamId == member.teamId
      members == IF hasTeamItem(teams, teamId)
                   THEN JSONparseMembers(teams[teamId]) ELSE <<>>
  IN setTeamItem(teams, teamId, JSONstringifyMembers(Append(members,
         [email |-> member.email, isLeader |-> member.isTeamLeader,
          joinedAt |-> member.timestamp])))

addTeamMember(teams, member) ==
  LET teamId == member.teamId
      members == IF hasTeamItem(teams, teamId)
                   THEN JSONparseMembers(teams[teamId]) ELSE <<>>
  IN IF ~ \E i \in 1..Len(members) : members[i].email = member.email
       THEN setTeamItem(teams, teamId, JSONstringifyMembers(Append(members,
              [email |-> member.email, isLeader |-> member.isTeamLeader,
               joinedAt |-> member.timestamp])))
       ELSE teams

(* The registration object saveRegistration() builds from FamHack.state *)
registrationOf(st, time) ==
  [email |-> st.currentEmail, teamId |-> st.teamId,
   isTeamLeader |-> st.isTeamLeader, timestamp |-> time]

(* getStoredRegistration(), getStoredTeamId(), isRegistered() *)
getStoredRegistration ==
  IF lsRegistration # <<>> THEN <<JSONparseRegistration(lsRegistration[1])>> ELSE <<>>
getStoredTeamId_OfSession == state.teamId

getStoredTeamId ==
  IF lsRegistration # <<>> THEN JSONparseRegistration(lsRegistration[1]).teamId ELSE null
isRegistered == getStoredRegistration # <<>>

(* The roster of a team as the dashboard reads it (loadTeamMembers) *)
rosterOf(teamId) ==
  IF hasTeamItem(lsTeams, teamId) THEN JSONparseMembers(lsTeams[teamId]) ELSE <<>>

-----------------------------------------------------------------------------
(* The documents of the registration site.  The markup is not part of the  *)
(* source: the register and join pages hold the email step and the OTP     *)
(* step (.register-step), of which only the active one takes user input;   *)
(* the dashboard holds neither.                                            *)

InviteId == <<"A","B","C","D","1","2","3","4">>

FormPages ==
  { [path |-> "/register.html", t |-> null],
    [path |-> "/join.html", t |-> InviteId] }

hasForms == page.path \in {"/register.html", "/join.html"}

(* window.location.pathname.includes('join.html') *)
pathIncludesJoin(path) == path = "/join.html"

InitialState == [currentEmail |-> null, teamId |-> null, isTeamLeader |-> FALSE]

(* checkURLParams(): FamHack.state after it ran on a fresh document;       *)
(* urlParams.get('t') is null or '' (both falsy) when no team is given     *)
checkURLParams_AsLeader(st, pg) ==
  IF pg.t # null /\ pathIncludesJoin(pg.path)
    THEN [st EXCEPT !.teamId = pg.t, !.isTeamLeader = TRUE]
    ELSE st

checkURLParams(st, pg) ==
  IF pg.t # null /\ pathIncludesJoin(pg.path)
    THEN [st EXCEPT !.teamId = pg.t, !.isTeamLeader = FALSE]
    ELSE st

(* The controls as the document is parsed; whether the markup disables the *)
(* verify button is not known, so both are possible                        *)
InitialDom(verifyDisabled, pg) ==
  [step             |-> "email",
   emailInput       |-> <<>>,
   emailError       |-> "",
   sendDisabled     |-> FALSE,
   sendLoading      |-> FALSE,
   sendText         |-> "Send OTP",
   sendOriginalText |-> "",
   otpDigits        |-> [i \in 1..otpLength |-> ""],
   otpError         |-> "",
   verifyDisabled   |-> verifyDisabled,
   verifyLoading    |-> FALSE,
   verifyText       |-> "Verify",
   resendDisabled   |-> FALSE,
   resendText       |-> [label |-> "Resend OTP", seconds |-> 0],
   joinTeamId       |-> IF pg.t # null /\ pathIncludesJoin(pg.path) THEN pg.t ELSE null]

FreshSession(st) ==
  [seeded    |-> st.teamId,  \* the team id checkURLParams seeded, or null
   accepted  |-> <<>>,       \* the teamIds of the last two accepted verifyOTP calls
   rejected  |-> FALSE,      \* a verifyOTP call resolved with success: false
   generated |-> 0,          \* calls of generateTeamId (counted up to 2)
   first     |-> <<>>,       \* the stored items right after the first acceptance
   dupAdd    |-> FALSE]      \* addTeamMember found the email in the roster

(* What a document starts with: init() ran, nothing is pending *)
DocumentLoaded(pg, verifyDisabled) ==
  /\ page' = [path |-> pg.path, t |-> pg.t, leaving |-> FALSE]
  /\ state' = checkURLParams(InitialState, pg)
  /\ dom' = InitialDom(verifyDisabled, pg)
  /\ timeouts' = <<>>
  /\ intervals' = <<>>
  /\ session' = FreshSession(checkURLParams(InitialState, pg))

-----------------------------------------------------------------------------
(* Invite links: the URL generateInviteLink builds, and what the browser    *)
(* and URLSearchParams make of it when it is opened                        *)

Origin == <<"h","t","t","p","s",":","/","/","h">>

JoinPath == <<"/","j","o","i","n",".","h","t","m","l">>

(* generateInviteLink(): the template string, or null without a team id *)
generateInviteLink ==
  LET teamId == IF state.teamId # null THEN state.teamId ELSE getStoredTeamId
  IN IF teamId = null THEN null
     ELSE Origin \o JoinPath \o <<"?","t","=">> \o teamId

(* The printable ASCII characters, from code 32 on (the grave accent, code *)
(* 96, is written as a token)                                              *)
Ascii ==
  <<" ","!","\"","#","$","%","&","'","(",")","*","+",",","-",".","/",
    "0","1","2","3","4","5","6","7","8","9",":",";","<","=",">","?",
    "@","A","B","C","D","E","F","G","H","I","J","K","L","M","N","O",
    "P","Q","R","S","T","U","V","W","X","Y","Z","[","\\","]","^","_",
    "U+0060","a","b","c","d","e","f","g","h","i","j","k","l","m","n","o",
    "p","q","r","s","t","u","v","w","x","y","z","{","|","}","~">>

HexDigits == <<"0","1","2","3","4","5","6","7","8","9","A","B","C","D","E","F">>

isHex(c) == \E v \in 1..16 : HexDigits[v] = c \/ toLowerCaseChar(HexDigits[v]) = c

hexValue(c) ==
  (CHOOSE v \in 1..16 : HexDigits[v] = c \/ toLowerCaseChar(HexDigits[v]) = c) - 1

(* the character of one decoded byte; a byte that is no printable ASCII    *)
(* character is written as one token                                       *)
byteChar(h1, h2) ==
  LET code == 16 * hexValue(h1) + hexValue(h2)
  IN IF code \in 32..126 THEN Ascii[code - 31] ELSE "U+FFFD"

(* application/x-www-form-urlencoded decoding of a name or a value *)
RECURSIVE formDecode(_)
formDecode(s) ==
  IF s = <<>> THEN <<>>
  ELSE IF Head(s) = "+" THEN <<" ">> \o formDecode(Tail(s))
  ELSE IF Head(s) = "%" /\ Len(s) >= 3 /\ isHex(s[2]) /\ isHex(s[3])
    THEN <<byteChar(s[2], s[3])>> \o formDecode(SubSeq(s, 4, Len(s)))
    ELSE <<Head(s)>> \o formDecode(Tail(s))

(* the first position of s that holds a character of cs, or Len(s) + 1 *)
firstOf(s, cs) ==
  IF \E i \in 1..Len(s) : s[i] \in cs
    THEN CHOOSE i \in 1..Len(s) : s[i] \in cs /\ \A j \in 1..(i - 1) : s[j] \notin cs
    ELSE Len(s) + 1

(* the query as the URL parser keeps it: a space is percent-encoded *)
RECURSIVE encodeQuery(_)
encodeQuery(s) ==
  IF s = <<>> THEN <<>>
  ELSE IF Head(s) = " " THEN <<"%","2","0">> \o encodeQuery(Tail(s))
  ELSE <<Head(s)>> \o encodeQuery(Tail(s))

(* window.location of a document opened at url: pathname and search *)
locationOfURL(url) ==
  LET rest == SubSeq(url, Len(Origin) + 1, Len(url))
      noFragment == SubSeq(rest, 1, firstOf(rest, {"#"}) - 1)
      q == firstOf(noFragment, {"?"})
  IN [pathname |-> SubSeq(noFragment, 1, q - 1),
      search |-> encodeQuery(SubSeq(noFragment, q, Len(noFragment)))]

(* new URLSearchParams(search).get(name): the value of the first pair with *)
(* that name, or null                                                      *)
RECURSIVE searchParamsGet(_, _)
searchParamsGet(query, name) ==
  IF query = <<>> THEN null
  ELSE LET amp == firstOf(query, {"&"})
           pair == SubSeq(query, 1, amp - 1)
           eq == firstOf(pair, {"="})
           rest == SubSeq(query, amp + 1, Len(query))
       IN IF pair # <<>> /\ formDecode(SubSeq(pair, 1, eq - 1)) = name
            THEN formDecode(SubSeq(pair, eq + 1, Len(pair)))
            ELSE searchParamsGet(rest, name)

URLSearchParamsGet(search, name) ==
  searchParamsGet(IF search # <<>> /\ Head(search) = "?" THEN Tail(search) ELSE search,
                  name)

(* the page a URL of the site opens: its path and its parameter t *)
pageOfURL(url) ==
  LET loc == locationOfURL(url)
  IN [path |-> IF loc.pathname = JoinPath THEN "/join.html" ELSE "/register.html",
      t |-> URLSearchParamsGet(loc.search, <<"t">>)]

-----------------------------------------------------------------------------
(* The OTP fields                                                          *)

(* input listeners that would keep what was typed *)
digitsOnly_Unfiltered(s) == s

(* value.replace(/\D/g, '') *)
digitsOnly(s) == SelectSeq(s, LAMBDA c : c \in DigitChars)

(* getOTPValue(): the fields' values joined *)
joinDigits(digits) == SelectSeq(digits, LAMBDA c : c # "")
getOTPValue == joinDigits(dom.otpDigits)

(* a checkOTPComplete that would leave the verify button enabled *)
checkOTPComplete_AlwaysEnabled(d) == [d EXCEPT !.verifyDisabled = FALSE]

(* checkOTPComplete(inputs): the verify button's disabled flag *)
checkOTPComplete(d) ==
  [d EXCEPT !.verifyDisabled = Len(joinDigits(d.otpDigits)) # otpLength]

(* clearOTPInputs() *)
clearOTPInputs(d) == [d EXCEPT !.otpDigits = [i \in 1..otpLength |-> ""]]

(* The fields the user edits by hand, what the user leaves in one, and    *)
(* what the user pastes                                                    *)
TypedFields == {1}
RawFieldValues == { <<>>, <<"7">>, <<"x">>, <<"x", "7">> }
PasteData ==
  { <<"7","7","7","7","7","7">>,
    <<"7","7","-","7","7","7">>,
    <<"7","7","7","7","7","7","7","7">> }

EmailInputs ==
  { <<"a">> \o emailDomain,
    <<" ","B","@","E","D",".","A","C",".","U","K">>,
    <<"a","@","x",".","u","k">> }

-----------------------------------------------------------------------------
(* Timers.  A pending setTimeout callback runs once every callback         *)
(* registered before it with an equal or shorter delay has run; countdown  *)
(* intervals share one period, so an older one never has ticked less often *)
(* than a newer one.                                                       *)

timeoutDue(i) ==
  /\ i \in 1..Len(timeouts)
  /\ \A j \in 1..(i - 1) : timeouts[j].delay > timeouts[i].delay

intervalDue(i) ==
  /\ i \in 1..Len(intervals)
  /\ \A j \in 1..(i - 1) : intervals[j].seconds < intervals[i].seconds

removeAt(q, i) == SubSeq(q, 1, i - 1) \o SubSeq(q, i + 1, Len(q))

pendingOf(fn) == {i \in 1..Len(timeouts) : timeouts[i].fn = fn}

(* Room for one more mocked call: the bound on what is pending at once *)
roomForSend ==
  /\ Len(timeouts) < MaxTimeouts
  /\ Cardinality(pendingOf("sendOTP")) + Len(intervals) < MaxIntervals
roomForVerify == Len(timeouts) < MaxTimeouts

(* sendOTP(email): the timer it sets *)
sendOTP(email, caller) ==
  [fn |-> "sendOTP", delay |-> sendOTPDelay, caller |-> caller, arg |-> email]

(* verifyOTP(otp): the timer it sets *)
verifyOTP(otp, caller) ==
  [fn |-> "verifyOTP", delay |-> verifyOTPDelay, caller |-> caller, arg |-> otp]

-----------------------------------------------------------------------------
(* The email step                                                          *)

(* a handleSendOTP that would skip validateEmail *)
handleSendOTP_NoValidation(d) ==
  LET email == toLowerCase(trim(d.emailInput))
  IN /\ roomForSend
     /\ dom' = [d EXCEPT !.emailError = "",
                         !.sendDisabled = TRUE,
                         !.sendLoading = TRUE,
                         !.sendOriginalText = d.sendText,
                         !.sendText = "Sending..."]
     /\ state' = [state EXCEPT !.currentEmail = email]
     /\ timeouts' = Append(timeouts, sendOTP(email, "handleSendOTP"))

(* handleSendOTP() up to its await *)
handleSendOTP(d) ==
  LET email == toLowerCase(trim(d.emailInput))
  IN IF ~ validateEmail(email)
       THEN /\ dom' = [d EXCEPT !.emailError = "Please enter a valid @ed.ac.uk email address"]
            /\ UNCHANGED <<state, timeouts>>
       ELSE /\ roomForSend
            /\ dom' = [d EXCEPT !.emailError = "",
                                !.sendDisabled = TRUE,
                                !.sendLoading = TRUE,
                                !.sendOriginalText = d.sendText,
                                !.sendText = "Sending..."]
            /\ state' = [state EXCEPT !.currentEmail = email]
            /\ timeouts' = Append(timeouts, sendOTP(email, "handleSendOTP"))

(* The user leaves v in the email field and clicks the send button.  The   *)
(* field is read by handleSendOTP alone, so the keystrokes before the      *)
(* click are one step with it.                                             *)
ClickSendOTP(v) ==
  /\ hasForms /\ dom.step = "email"
  /\ ~ dom.sendDisabled
  /\ handleSendOTP([dom EXCEPT !.emailInput = v])
  /\ UNCHANGED <<page, lsRegistration, lsTeams, intervals, now, loads, session,
                 valVars, wl>>

(* The user leaves v in the email field and presses Enter in it *)
PressEnterInEmail(v) ==
  /\ hasForms /\ dom.step = "email"
  /\ handleSendOTP([dom EXCEPT !.emailInput = v])
  /\ UNCHANGED <<page, lsRegistration, lsTeams, intervals, now, loads, session,
                 valVars, wl>>

(* startResendCountdown(): the resend button as it leaves it *)
startResendCountdown(d) ==
  [d EXCEPT !.resendDisabled = TRUE,
            !.resendText = [label |-> "Resend in", seconds |-> otpResendDelay]]

(* The handle setInterval returns: numbers of cleared intervals are used   *)
(* again, so that the handles stay within 1..MaxIntervals                  *)
newIntervalId ==
  CHOOSE k \in 1..(Len(intervals) + 1) :
    /\ \A j \in 1..Len(intervals) : intervals[j].id # k
    /\ \A m \in 1..(k - 1) : \E j \in 1..Len(intervals) : intervals[j].id = m

(* The sendOTP timer fires, and the caller's code after its await runs *)
SendOTPTimeout(i) ==
  /\ timeoutDue(i)
  /\ timeouts[i].fn = "sendOTP"
  /\ timeouts' = removeAt(timeouts, i)
  /\ intervals' = Append(intervals, [seconds |-> otpResendDelay, id |-> newIntervalId])
  /\ dom' = IF timeouts[i].caller = "handleSendOTP"
              THEN startResendCountdown(
                     [dom EXCEPT !.sendDisabled = FALSE,
                                 !.sendLoading = FALSE,
                                 !.sendText = IF dom.sendOriginalText # ""
                                                THEN dom.sendOriginalText
                                                ELSE "Send OTP",
                                 !.step = "otp"])
              ELSE startResendCountdown(dom)
  /\ UNCHANGED <<state, page, lsRegistration, lsTeams, now, loads, session,
                 valVars, wl>>

(* a countdown that would not call clearInterval at zero *)
CountdownTick_NoClear(i) ==
  /\ intervalDue(i)
  /\ LET seconds == intervals[i].seconds - 1
     IN IF seconds <= 0
          THEN /\ intervals' = intervals
               /\ dom' = [dom EXCEPT !.resendDisabled = FALSE,
                                     !.resendText = [label |-> "Resend OTP", seconds |-> 0]]
          ELSE /\ intervals' = [intervals EXCEPT ![i].seconds = seconds]
               /\ dom' = [dom EXCEPT
                            !.resendText = [label |-> "Resend in", seconds |-> seconds]]
  /\ UNCHANGED <<state, page, lsRegistration, lsTeams, timeouts, now, loads, session,
                 valVars, wl>>

(* One tick of a countdown started by startResendCountdown() *)
CountdownTick(i) ==
  /\ intervalDue(i)
  /\ LET seconds == intervals[i].seconds - 1
     IN IF seconds <= 0
          THEN /\ intervals' = removeAt(intervals, i)
               /\ dom' = [dom EXCEPT !.resendDisabled = FALSE,
                                     !.resendText = [label |-> "Resend OTP", seconds |-> 0]]
          ELSE /\ intervals' = [intervals EXCEPT ![i].seconds = seconds]
               /\ dom' = [dom EXCEPT
                            !.resendText = [label |-> "Resend in", seconds |-> seconds]]
  /\ UNCHANGED <<state, page, lsRegistration, lsTeams, timeouts, now, loads, session,
                 valVars, wl>>

(* handleResendOTP() up to its await *)
ClickResendOTP ==
  /\ hasForms /\ dom.step = "otp"
  /\ ~ dom.resendDisabled
  /\ roomForSend
  /\ dom' = clearOTPInputs(dom)
  /\ timeouts' = Append(timeouts, sendOTP(state.currentEmail, "handleResendOTP"))
  /\ UNCHANGED <<state, page, lsRegistration, lsTeams, intervals, now, loads, session,
                 valVars, wl>>

-----------------------------------------------------------------------------
(* The OTP step                                                            *)

(* The 'input' listener of field i, the field holding raw after the edit *)
InputOTPDigit(i, raw) ==
  /\ hasForms /\ dom.step = "otp"
  /\ LET digits == digitsOnly(raw)
         value == IF digits = <<>> THEN "" ELSE digits[1]
     IN dom' = checkOTPComplete([dom EXCEPT !.otpDigits[i] = value])
  /\ dom' # dom
  /\ UNCHANGED <<state, page, lsRegistration, lsTeams, timeouts, intervals, now,
                 loads, session, valVars, wl>>

(* The 'paste' listener: the pasted digits go to the fields from the first on *)
PasteOTP(text) ==
  /\ hasForms /\ dom.step = "otp"
  /\ LET digits == digitsOnly(text)
         pastedData == SubSeq(digits, 1, IF Len(digits) < otpLength
                                           THEN Len(digits) ELSE otpLength)
     IN dom' = checkOTPComplete(
                 [dom EXCEPT !.otpDigits =
                    [k \in 1..otpLength |->
                       IF k <= Len(pastedData) THEN pastedData[k] ELSE dom.otpDigits[k]]])
  /\ dom' # dom
  /\ UNCHANGED <<state, page, lsRegistration, lsTeams, timeouts, intervals, now,
                 loads, session, valVars, wl>>

(* handleVerifyOTP() up to its await *)
ClickVerifyOTP ==
  /\ hasForms /\ dom.step = "otp"
  /\ ~ dom.verifyDisabled
  /\ LET otp == getOTPValue
     IN IF Len(otp) # otpLength
          THEN /\ dom' = [dom EXCEPT !.otpError = "Please enter the complete OTP"]
               /\ UNCHANGED timeouts
          ELSE /\ roomForVerify
               /\ dom' = [dom EXCEPT !.otpError = "",
                                     !.verifyDisabled = TRUE,
                                     !.verifyLoading = TRUE,
                                     !.verifyText = "Verifying..."]
               /\ timeouts' = Append(timeouts, verifyOTP(otp, "handleVerifyOTP"))
  /\ UNCHANGED <<state, page, lsRegistration, lsTeams, intervals, now, loads, session,
                 valVars, wl>>

(* /^\d+$/.test(otp) *)
allDigits(otp) == otp # <<>> /\ \A k \in 1..Len(otp) : otp[k] \in DigitChars

(* isValid of verifyOTP's callback *)
isValidOTP_LengthOnly(otp) == otp # null /\ Len(otp) = otpLength

(* a verifyOTP that would lock the session after one rejection *)
isValidOTP_LockedAfterRejection(otp) ==
  otp # null /\ Len(otp) = otpLength /\ allDigits(otp) /\ ~ session.rejected

isValidOTP(otp) == otp # null /\ Len(otp) = otpLength /\ allDigits(otp)

(* FamHack.state after the callback accepted a code: a team id is          *)
(* generated only if the session holds none                                *)
acceptedState_AlwaysGenerate(st, rnd) ==
  [st EXCEPT !.teamId = generateTeamId(rnd), !.isTeamLeader = TRUE]

acceptedState(st, rnd) ==
  IF st.teamId = null
    THEN [st EXCEPT !.teamId = generateTeamId(rnd), !.isTeamLeader = TRUE]
    ELSE st

(* The verifyOTP timer fires, and the caller's code after its await runs *)
VerifyOTPTimeout(i) ==
  /\ timeoutDue(i)
  /\ timeouts[i].fn = "verifyOTP"
  /\ timeouts' = removeAt(timeouts, i)
  /\ UNCHANGED <<intervals, loads, valVars, wl>>
  /\ IF isValidOTP(timeouts[i].arg)
       THEN \E rnd \in RandomDraws, time \in now..MaxClock :
              LET st == acceptedState(state, rnd)
                  registration == registrationOf(st, time)
                  teams == addTeamMember(lsTeams, registration)
              IN /\ state' = st
                 \* Date.now(): no earlier than its last reading
                 /\ now' = time
                 \* saveRegistration()
                 /\ lsRegistration' = <<JSONstringifyRegistration(registration)>>
                 /\ lsTeams' = teams
                 /\ session' =
                      [session EXCEPT
                         !.accepted = IF Len(@) < 2 THEN Append(@, st.teamId)
                                      ELSE <<@[2], st.teamId>>,
                         !.generated = IF st.teamId # state.teamId /\ @ < 2
                                         THEN @ + 1 ELSE @,
                         !.first = IF @ = <<>>
                                     THEN << <<lsRegistration', teams>> >> ELSE @,
                         !.dupAdd = @ \/ (hasTeamItem(lsTeams, st.teamId)
                                            /\ teams = lsTeams)]
                 /\ IF timeouts[i].caller = "handleVerifyOTP"
                      THEN \* window.location.href = 'dashboard.html'
                           /\ page' = [page EXCEPT !.leaving = TRUE]
                           /\ UNCHANGED dom
                      ELSE UNCHANGED <<page, dom>>
       ELSE /\ session' = [session EXCEPT !.rejected = TRUE]
            /\ UNCHANGED <<state, page, lsRegistration, lsTeams, now>>
            /\ IF timeouts[i].caller = "handleVerifyOTP"
                 THEN dom' = clearOTPInputs(
                               [dom EXCEPT !.verifyDisabled = FALSE,
                                           !.verifyLoading = FALSE,
                                           !.verifyText = "Verify",
                                           !.otpError = "Invalid OTP"])
                 ELSE UNCHANGED dom

-----------------------------------------------------------------------------
(* The environment of a document                                           *)

(* The navigation started by handleVerifyOTP completes: the dashboard loads *)
Unload ==
  /\ page.leaving
  /\ DocumentLoaded([path |-> "/dashboard.html", t |-> null], TRUE)
  /\ UNCHANGED <<lsRegistration, lsTeams, now, loads, valVars, wl>>

(* The user opens the register page or a join link, in the same profile *)
LoadPage(pg, verifyDisabled) ==
  /\ loads < MaxLoads
  /\ loads' = loads + 1
  /\ DocumentLoaded(pg, verifyDisabled)
  /\ UNCHANGED <<lsRegistration, lsTeams, now, valVars, wl>>

(* Another script of the page calls FamHack.verifyOTP(code) *)
ApiCodes ==
  { null,
    <<"1","2","3","4","5">>,
    <<"1","2","a","4","5","6">>,
    <<"1","2","3","4","5","6","7">>,
    <<"1","2","3","4","5","6">> }

CallVerifyOTP(code) ==
  /\ roomForVerify
  /\ timeouts' = Append(timeouts, verifyOTP(code, "script"))
  /\ UNCHANGED <<state, dom, page, lsRegistration, lsTeams, intervals, now, loads,
                 session, valVars, wl>>

-----------------------------------------------------------------------------
(* The waitlist widget of the landing page, with the two endpoints it      *)
(* calls and the Supabase client it may create.                            *)

MaxFetches == 2          \* count requests in flight at once
MaxCalls == 1            \* upserts, and sign-outs, in flight at once
MaxSignIns == 1          \* signInWithOtp calls in flight at once

DigitOf == <<"0","1","2","3","4","5","6","7","8","9">>

RECURSIVE decimal(_)
decimal(n) ==
  IF n < 10 THEN <<DigitOf[n + 1]>>
  ELSE Append(decimal(n \div 10), DigitOf[(n % 10) + 1])

RECURSIVE grouped(_)
grouped(s) ==
  IF Len(s) <= 3 THEN s
  ELSE grouped(SubSeq(s, 1, Len(s) - 3)) \o <<",">>
         \o SubSeq(s, Len(s) - 2, Len(s))

(* new Intl.NumberFormat('en-US').format(n) for an integer n >= 0 *)
numberFormat(n) == grouped(decimal(n))

(* api/public-config: what the server answers *)
NoBody == <<>>

publicConfigHandler(method, env) ==
  IF method = "OPTIONS" THEN [status |-> 200, body |-> NoBody]
  ELSE IF env.SUPABASE_URL = "" \/ env.SUPABASE_ANON_KEY = ""
    THEN [status |-> 503,
          body |-> <<[error |-> "Supabase not configured on server.",
                      supabaseUrl |-> "", supabaseAnonKey |-> "",
                      supabaseConfigured |-> FALSE]>>]
    ELSE [status |-> 200,
          body |-> <<[error |-> "",
                      supabaseUrl |-> env.SUPABASE_URL,
                      supabaseAnonKey |-> env.SUPABASE_ANON_KEY,
                      supabaseConfigured |-> TRUE]>>]

(* api/waitlist/count: the two handlers differ in the table they count *)
countHandler(method, env, tables, table, queryFails) ==
  IF method = "OPTIONS" THEN [status |-> 200, body |-> NoBody]
  ELSE IF env.SUPABASE_URL = "" \/ env.SUPABASE_SERVICE_KEY = ""
    THEN [status |-> 503,
          body |-> <<[error |-> "Supabase not configured.", count |-> 0]>>]
  ELSE IF queryFails
    THEN [status |-> 500,
          body |-> <<[error |-> "Failed to fetch count.", count |-> 0]>>]
    ELSE [status |-> 200,
          body |-> <<[error |-> "", count |-> Cardinality(tables[table])]>>]

Status(text) == [text |-> text, email |-> null]

WlUser == <<"a","@","b",".","c">>

WlEmailInputs ==
  { <<" ","A","@","b",".","c">>,
    <<"a","@","b">> }

CountTables == {"waitlist_users", "waitlist"}

(* The page before init has run *)
WlPage(env, cdn, section, auth, table) ==
  [ env |-> env,               \* process.env of the server
    cdn |-> cdn,               \* window.supabase.createClient is there
    section |-> section,       \* the waitlist section is on this page
    authSession |-> auth,      \* the session the Supabase client would find
    countTable |-> table,      \* the table the deployed count handler reads
    tables |-> [t \in CountTables |-> {}],
    mailed |-> {},             \* addresses a magic link was sent to
    pc |-> "load",             \* where init is
    config |-> null,           \* the body init received from /api/public-config
    status |-> Status(""),
    formDisplay |-> "",
    cardDisplay |-> "none",
    confirmedEmail |-> null,
    count |-> <<"0">>,
    emailInput |-> null,
    sendBtn |-> [disabled |-> FALSE, text |-> "Send Magic Link"],
    supabase |-> null,
    wired |-> {},
    listening |-> FALSE,
    lookups |-> 0,
    pollTimer |-> FALSE,
    fetches |-> <<>>,          \* refreshCount calls waiting for their response
    upserts |-> <<>>,          \* handleSession calls waiting for the upsert
    signIns |-> <<>>,          \* sendMagicLink calls waiting for signInWithOtp
    signOuts |-> 0,            \* switch-email clicks waiting for signOut
    console |-> {},            \* what console.error has printed
    lastFailed |-> null ]      \* history: the awaiting caller of the last refreshCount that failed

NoEnv == [SUPABASE_URL |-> "", SUPABASE_ANON_KEY |-> "", SUPABASE_SERVICE_KEY |-> ""]

WlIdle == WlPage(NoEnv, FALSE, FALSE, null, "waitlist_users")

setStatus(w, st) == [w EXCEPT !.status = st]

setCount(w, n) == [w EXCEPT !.count = numberFormat(IF n > 0 THEN n ELSE 0)]

showEmailForm(w) == [w EXCEPT !.formDisplay = "", !.cardDisplay = "none"]

showConfirmedCard(w, email) ==
  [w EXCEPT !.formDisplay = "none", !.cardDisplay = "", !.confirmedEmail = email]

setButtonLoading(w, isLoading, label) ==
  [w EXCEPT !.sendBtn = [disabled |-> isLoading,
                         text |-> IF isLoading THEN "Sending..." ELSE label]]

(* refreshCount up to its fetch; awaitedBy names the caller that waits *)
refreshCount(w, awaitedBy) ==
  [w EXCEPT !.fetches = Append(@, [awaitedBy |-> awaitedBy,
                                   rows |-> w.tables[w.countTable],
                                   stale |-> FALSE])]

startPolling(w) == [refreshCount(w, "none") EXCEPT !.pollTimer = TRUE]

(* handleSession up to the upsert it awaits *)
handleSession(w, sess, from) ==
  [setStatus(showConfirmedCard(w, sess.email),
             Status("You're on the waitlist! We'll be in touch."))
     EXCEPT !.upserts = Append(@, [from |-> from, user |-> sess])]

(* supabase.auth.onAuthStateChange(...) and the end of init *)
listenForAuthChanges(w) == [w EXCEPT !.listening = TRUE, !.pc = "done"]

(* init from the config it received up to its next await *)
initAfterConfig_NoConfiguredCheck(w, config) ==
  IF ~ w.cdn
    THEN [showEmailForm(setStatus(w,
            Status("Auth library failed to load. Refresh and try again.")))
            EXCEPT !.pc = "done"]
    ELSE [setStatus(w, Status("Checking session..."))
            EXCEPT !.supabase = <<[url |-> config.supabaseUrl,
                                   key |-> config.supabaseAnonKey]>>,
                   !.wired = {"send", "enter", "switch"},
                   !.lookups = @ + 1,
                   !.pc = "session"]

initAfterConfig(w, config) ==
  IF ~ config.supabaseConfigured
    THEN [showEmailForm(setStatus(w, Status("Waitlist live. Auth coming soon.")))
            EXCEPT !.pc = "done"]
  ELSE IF ~ w.cdn
    THEN [showEmailForm(setStatus(w,
            Status("Auth library failed to load. Refresh and try again.")))
            EXCEPT !.pc = "done"]
    ELSE [setStatus(w, Status("Checking session..."))
            EXCEPT !.supabase = <<[url |-> config.supabaseUrl,
                                   key |-> config.supabaseAnonKey]>>,
                   !.wired = {"send", "enter", "switch"},
                   !.lookups = @ + 1,
                   !.pc = "session"]

(* /^[^\s@]+@[^\s@]+\.[^\s@]+$/ *)
isEmailShaped(email) ==
  \E a \in 1..Len(email) :
    /\ email[a] = "@"
    /\ a > 1
    /\ \A k \in 1..Len(email) :
         k # a => (email[k] # "@" /\ email[k] \notin WhiteSpace)
    /\ \E p \in (a + 2)..(Len(email) - 1) : email[p] = "."

wlRest == <<vInput, vResult, state, dom, page, lsRegistration, lsTeams,
            timeouts, intervals, now, loads, session>>

(* init, from DOMContentLoaded to its first await *)
WlInit ==
  /\ wl.pc = "load"
  /\ wl' = IF ~ wl.section
             THEN [wl EXCEPT !.pc = "done"]
             ELSE [startPolling(setStatus(wl, Status("Loading...")))
                     EXCEPT !.pc = "config"]
  /\ UNCHANGED wlRest

(* init resumes with the answer of /api/public-config, or with the fetch   *)
(* or the parse of its body failing                                        *)
WlConfigResponse(arrives) ==
  /\ wl.pc = "config"
  /\ LET res == publicConfigHandler("GET", wl.env)
     IN IF ~ arrives \/ res.body = NoBody
          THEN wl' = [showEmailForm(setStatus(wl,
                        Status("Could not reach the server. Please refresh.")))
                        EXCEPT !.pc = "done"]
          ELSE wl' = initAfterConfig([wl EXCEPT !.config = res.body], res.body[1])
  /\ UNCHANGED wlRest

(* init resumes with the result of supabase.auth.getSession() *)
WlSessionResult ==
  /\ wl.pc = "session"
  /\ wl' = IF wl.authSession # null
             THEN [handleSession(wl, wl.authSession[1], "init") EXCEPT !.pc = "join"]
             ELSE listenForAuthChanges(
                    setStatus(showEmailForm(wl),
                              Status("Enter your email to join the waitlist.")))
  /\ UNCHANGED wlRest

UniqueViolation == "duplicate key value violates unique constraint"

(* an error of the upsert that is no duplicate *)
PermissionDenied == "permission denied for table waitlist_users"

UpsertErrors == {UniqueViolation, PermissionDenied}

(* the confirmation state of the widget *)
confirmationShown(w) ==
  /\ w.cardDisplay = "" /\ w.formDisplay = "none"
  /\ w.status = Status("You're on the waitlist! We'll be in touch.")

(* a handler that would surface the error of the upsert *)
WlUpsertResult_ErrorShown(i, error) ==
  /\ i \in 1..Len(wl.upserts)
  /\ Len(wl.fetches) < MaxFetches
  /\ LET call == wl.upserts[i]
         w == [wl EXCEPT !.upserts = removeAt(@, i),
                         !.tables["waitlist_users"] =
                            IF error # null THEN @ ELSE @ \cup {call.user.id},
                         !.console = IF error # null THEN @ \cup {error[1]} ELSE @]
     IN wl' = refreshCount(IF error # null
                             THEN showEmailForm(setStatus(w, Status(error[1])))
                             ELSE w,
                           call.from)
  /\ UNCHANGED wlRest

(* upsertWaitlistUser resumes with the result of the upsert: the row is    *)
(* there unless the call returned an error, an error is only printed, and  *)
(* refreshCount is called either way                                       *)
WlUpsertResult(i, error) ==
  /\ i \in 1..Len(wl.upserts)
  /\ Len(wl.fetches) < MaxFetches
  /\ LET call == wl.upserts[i]
         w == [wl EXCEPT !.upserts = removeAt(@, i),
                         !.tables["waitlist_users"] =
                            IF error # null THEN @ ELSE @ \cup {call.user.id},
                         !.console = IF error # null THEN @ \cup {error[1]} ELSE @]
     IN wl' = refreshCount(w, call.from)
  /\ UNCHANGED wlRest

(* The requests in flight once request i has resumed; when its answer was  *)
(* displayed, the requests started before it are marked: their answers are *)
(* older than what is shown                                                *)
resumed(fetches, i, displayed) ==
  removeAt([k \in 1..Len(fetches) |->
              IF displayed /\ k < i THEN [fetches[k] EXCEPT !.stale = TRUE]
              ELSE fetches[k]], i)

(* What the counted table can hold when the endpoint handles request i:    *)
(* the handler runs at some moment between the request and its answer      *)
rowsWhenServed(w, i) ==
  {rows \in SUBSET w.tables[w.countTable] : w.fetches[i].rows \subseteq rows}

(* a refreshCount whose catch would reset the count *)
WlCountResponse_ZeroOnFailure(i, arrives, queryFails) ==
  /\ i \in 1..Len(wl.fetches)
  /\ \E rows \in rowsWhenServed(wl, i) :
     LET res == countHandler("GET", wl.env, [wl.tables EXCEPT ![wl.countTable] = rows],
                             wl.countTable, queryFails)
         w0 == [wl EXCEPT !.fetches = resumed(@, i, arrives /\ res.body # NoBody)]
         w1 == IF ~ arrives \/ res.body = NoBody
                 THEN setCount([w0 EXCEPT !.lastFailed =
                                   IF wl.fetches[i].awaitedBy = "none"
                                     THEN @ ELSE <<wl.fetches[i].awaitedBy>>], 0)
                 ELSE setCount(w0, res.body[1].count)
     IN wl' = IF wl.fetches[i].awaitedBy = "init"
                THEN listenForAuthChanges(w1)
                ELSE w1
  /\ UNCHANGED wlRest

(* refreshCount resumes with the answer of /api/waitlist/count, or with    *)
(* the fetch or the parse of its body failing; the caller that awaited it  *)
(* goes on                                                                 *)
WlCountResponse(i, arrives, queryFails) ==
  /\ i \in 1..Len(wl.fetches)
  /\ \E rows \in rowsWhenServed(wl, i) :
     LET res == countHandler("GET", wl.env, [wl.tables EXCEPT ![wl.countTable] = rows],
                             wl.countTable, queryFails)
         w0 == [wl EXCEPT !.fetches = resumed(@, i, arrives /\ res.body # NoBody)]
         w1 == IF ~ arrives \/ res.body = NoBody
                 THEN [w0 EXCEPT !.lastFailed =
                                   IF wl.fetches[i].awaitedBy = "none"
                                     THEN @ ELSE <<wl.fetches[i].awaitedBy>>]
                 ELSE setCount(w0, res.body[1].count)
     IN wl' = IF wl.fetches[i].awaitedBy = "init"
                THEN listenForAuthChanges(w1)
                ELSE w1
  /\ UNCHANGED wlRest

(* the two-minute interval of startPolling *)
WlPollTick ==
  /\ wl.pollTimer
  /\ Len(wl.fetches) < MaxFetches
  /\ wl' = refreshCount(wl, "none")
  /\ UNCHANGED wlRest

(* sendMagicLink up to its await *)
sendMagicLink(w) ==
  LET email == toLowerCase(trim(w.emailInput))
  IN IF email = <<>> \/ ~ isEmailShaped(email)
       THEN setStatus(w, Status("Please enter a valid email address."))
       ELSE [setStatus(setButtonLoading(w, TRUE, "Send Magic Link"),
                       Status("Sending your sign-in link..."))
               EXCEPT !.signIns = Append(@, email)]

(* the user types an address and clicks the send button; the click reaches *)
(* sendMagicLink only when init has wired it                               *)
WlClickSend(v) ==
  /\ wl.pc # "load"
  /\ wl.section
  /\ wl.formDisplay # "none"
  /\ ~ wl.sendBtn.disabled
  /\ Len(wl.signIns) < MaxSignIns
  /\ LET w == [wl EXCEPT !.emailInput = v]
     IN wl' = IF "send" \in wl.wired THEN sendMagicLink(w) ELSE w
  /\ UNCHANGED wlRest

(* the user types an address and presses Enter in the email field *)
WlPressEnter(v) ==
  /\ wl.pc # "load"
  /\ wl.section
  /\ wl.formDisplay # "none"
  /\ Len(wl.signIns) < MaxSignIns
  /\ LET w == [wl EXCEPT !.emailInput = v]
     IN wl' = IF "enter" \in wl.wired THEN sendMagicLink(w) ELSE w
  /\ UNCHANGED wlRest

SignInErrors == {"Email rate limit exceeded", ""}

(* sendMagicLink resumes with the result of signInWithOtp *)
WlSignInResult(i, error) ==
  /\ i \in 1..Len(wl.signIns)
  /\ LET email == wl.signIns[i]
         w == setButtonLoading([wl EXCEPT !.signIns = removeAt(@, i)],
                               FALSE, "Send Magic Link")
     IN wl' = IF error # null
                THEN setStatus(w, Status(IF error[1] # "" THEN error[1]
                                         ELSE "Failed to send magic link. Try again."))
                ELSE [w EXCEPT !.status = [text |-> "Check your inbox", email |-> email],
                               !.sendBtn.text = "Resend Link",
                               !.mailed = @ \cup {email}]
  /\ UNCHANGED wlRest

(* The calls of the Supabase client return promises, and a promise may     *)
(* reject instead of resolving with an error object.  The function that    *)
(* awaits it outside a try block ends there: what follows its await is     *)
(* not run.                                                                *)

(* signInWithOtp rejects: sendMagicLink ends at its await *)
WlSignInRejects(i) ==
  /\ i \in 1..Len(wl.signIns)
  /\ wl' = [wl EXCEPT !.signIns = removeAt(@, i)]
  /\ UNCHANGED wlRest

(* getSession rejects: init ends at its await *)
WlGetSessionRejects ==
  /\ wl.pc = "session"
  /\ wl' = [wl EXCEPT !.pc = "failed"]
  /\ UNCHANGED wlRest

(* the upsert rejects: upsertWaitlistUser and handleSession end, and so     *)
(* does init when it awaited them                                          *)
WlUpsertRejects(i) ==
  /\ i \in 1..Len(wl.upserts)
  /\ wl' = [wl EXCEPT !.upserts = removeAt(@, i),
                      !.pc = IF wl.upserts[i].from = "init" THEN "failed" ELSE @]
  /\ UNCHANGED wlRest

(* signOut rejects: the switch-email handler ends at its await *)
WlSignOutRejects ==
  /\ wl.signOuts > 0
  /\ wl' = [wl EXCEPT !.signOuts = @ - 1]
  /\ UNCHANGED wlRest

(* the user follows a magic link: the browser holds a session from then on *)
WlFollowLink(email) ==
  /\ email \in wl.mailed
  /\ wl.authSession = null
  /\ wl' = [wl EXCEPT !.authSession = <<[id |-> email, email |-> email]>>]
  /\ UNCHANGED wlRest

(* the listener of onAuthStateChange is called with a session *)
WlAuthStateChange ==
  /\ wl.listening
  /\ wl.authSession # null
  /\ Len(wl.upserts) < MaxCalls
  /\ wl' = handleSession(wl, wl.authSession[1], "event")
  /\ UNCHANGED wlRest

(* the click handler of the switch-email button up to its await *)
WlClickSwitch ==
  /\ wl.pc # "load"
  /\ wl.section
  /\ wl.cardDisplay # "none"
  /\ wl.signOuts < MaxCalls
  /\ wl' = IF "switch" \in wl.wired THEN [wl EXCEPT !.signOuts = @ + 1] ELSE wl
  /\ UNCHANGED wlRest

(* the switch-email handler resumes after signOut *)
WlSignOutResult ==
  /\ wl.signOuts > 0
  /\ wl' = [setStatus(showEmailForm(wl), Status("Sign in with a different email."))
              EXCEPT !.signOuts = @ - 1,
                     !.authSession = null,
                     !.emailInput = null]
  /\ UNCHANGED wlRest


-----------------------------------------------------------------------------
(* The registration site: one browser profile, its documents one after the *)
(* other                                                                   *)

EmptyTeams == [k \in {} |-> <<>>]

InitRegistration ==
  /\ vInput = <<>> /\ vResult = <<>>
  /\ wl = WlIdle
  /\ now = 0
  /\ loads = 1
  /\ lsRegistration = <<>>
  /\ lsTeams = EmptyTeams
  /\ timeouts = <<>>
  /\ intervals = <<>>
  /\ \E pg \in FormPages, verifyDisabled \in BOOLEAN :
       /\ page = [path |-> pg.path, t |-> pg.t, leaving |-> FALSE]
       /\ state = checkURLParams(InitialState, pg)
       /\ dom = InitialDom(verifyDisabled, pg)
       /\ session = FreshSession(checkURLParams(InitialState, pg))

Next ==
  \/ \E v \in EmailInputs : ClickSendOTP(v)
  \/ \E v \in EmailInputs : PressEnterInEmail(v)
  \/ \E i \in 1..MaxTimeouts : SendOTPTimeout(i)
  \/ \E i \in 1..MaxIntervals : CountdownTick(i)
  \/ ClickResendOTP
  \/ \E i \in TypedFields, raw \in RawFieldValues : InputOTPDigit(i, raw)
  \/ \E text \in PasteData : PasteOTP(text)
  \/ ClickVerifyOTP
  \/ \E i \in 1..MaxTimeouts : VerifyOTPTimeout(i)
  \/ Unload

Spec == InitRegistration /\ [][Next]_vars

(* The same site across documents: the user goes through the steps, and   *)
(* then opens the register page, the invite link or the invite link of a   *)
(* team this profile knows.                                                *)
PagesToOpen ==
  FormPages \cup {[path |-> "/join.html", t |-> k] : k \in DOMAIN lsTeams}

NextProfile ==
  \/ \E v \in EmailInputs : ClickSendOTP(v)
  \/ \E i \in 1..MaxTimeouts : SendOTPTimeout(i)
  \/ \E i \in 1..MaxIntervals : CountdownTick(i)
  \/ \E text \in PasteData : PasteOTP(text)
  \/ ClickVerifyOTP
  \/ \E i \in 1..MaxTimeouts : VerifyOTPTimeout(i)
  \/ Unload
  \/ \E pg \in PagesToOpen, verifyDisabled \in BOOLEAN : LoadPage(pg, verifyDisabled)

(* The single document with its timers running: an interval that is due   *)
(* ticks, a timeout that is due fires                                      *)
TimersRun ==
  /\ \A i \in 1..MaxIntervals : WF_vars(CountdownTick(i))
  /\ \A i \in 1..MaxTimeouts : WF_vars(SendOTPTimeout(i))
  /\ \A i \in 1..MaxTimeouts : WF_vars(VerifyOTPTimeout(i))

LiveEmails == { <<"a">> \o emailDomain, <<"a","@","x",".","u","k">> }
LivePastes == { <<"7","7","7","7","7","7">>, <<"7","7","-","7","7","7">> }
LiveCodes == { <<"1","2","a","4","5","6">> }

NextLive ==
  \/ \E v \in LiveEmails : ClickSendOTP(v)
  \/ \E v \in LiveEmails : PressEnterInEmail(v)
  \/ \E i \in 1..MaxTimeouts : SendOTPTimeout(i)
  \/ \E i \in 1..MaxIntervals : CountdownTick(i)
  \/ ClickResendOTP
  \/ \E text \in LivePastes : PasteOTP(text)
  \/ ClickVerifyOTP
  \/ \E i \in 1..MaxTimeouts : VerifyOTPTimeout(i)
  \/ Unload

SpecLive == InitRegistration /\ [][NextLive]_vars /\ TimersRun

(* The single document, with its timers running, in which another script   *)
(* calls FamHack.verifyOTP with a malformed code                           *)
NextMock ==
  \/ \E v \in LiveEmails : ClickSendOTP(v)
  \/ \E i \in 1..MaxTimeouts : SendOTPTimeout(i)
  \/ \E i \in 1..MaxIntervals : CountdownTick(i)
  \/ \E text \in LivePastes : PasteOTP(text)
  \/ ClickVerifyOTP
  \/ \E code \in LiveCodes : CallVerifyOTP(code)
  \/ \E i \in 1..MaxTimeouts : VerifyOTPTimeout(i)
  \/ Unload

SpecMock == InitRegistration /\ [][NextMock]_vars /\ TimersRun

SpecProfile == InitRegistration /\ [][NextProfile]_vars

(* One document in which another script calls FamHack.verifyOTP as well *)
NextScript ==
  \/ \E v \in EmailInputs : ClickSendOTP(v)
  \/ \E i \in 1..MaxTimeouts : SendOTPTimeout(i)
  \/ \E i \in 1..MaxIntervals : CountdownTick(i)
  \/ \E text \in PasteData : PasteOTP(text)
  \/ ClickVerifyOTP
  \/ \E code \in ApiCodes : CallVerifyOTP(code)
  \/ \E i \in 1..MaxTimeouts : VerifyOTPTimeout(i)
  \/ Unload

SpecScript == InitRegistration /\ [][NextScript]_vars

-----------------------------------------------------------------------------
(* validateEmail on its own: one call on one argument                      *)

Concat4(a, b, c, d) == a \o b \o c \o d

ValidateInputs ==
  { Concat4(pre, local, core, post) :
      pre \in { <<>>, <<" ">> },
      local \in { <<>>, <<"a">>, <<"B">>, <<" ">> },
      core \in { emailDomain,
                 <<"@","E","D",".","A","C",".","U","K">>,
                 <<"@","e","d",".","a","c",".","u">>,
                 <<"e","d",".","a","c",".","u","k">>,
                 <<"@","x",".","u","k">>,
                 <<>> },
      post \in { <<>>, <<" ">>, <<"\n">>, <<"x">> } }

RegistrationIdle ==
  /\ now = 0
  /\ loads = 1
  /\ lsRegistration = <<>>
  /\ lsTeams = EmptyTeams
  /\ timeouts = <<>>
  /\ intervals = <<>>
  /\ page = [path |-> "/dashboard.html", t |-> null, leaving |-> FALSE]
  /\ state = InitialState
  /\ dom = InitialDom(TRUE, [path |-> "/dashboard.html", t |-> null])
  /\ session = FreshSession(InitialState)

InitValidate ==
  /\ vInput \in ValidateInputs
  /\ vResult = <<>>
  /\ wl = WlIdle
  /\ RegistrationIdle

CallValidateEmail ==
  /\ vResult = <<>>
  /\ vResult' = <<validateEmail(vInput)>>
  /\ UNCHANGED <<vInput, regVars, wl>>

SpecValidate == InitValidate /\ [][CallValidateEmail]_vars

-----------------------------------------------------------------------------
(* The dashboard of a registered profile shows its invite link, and the    *)
(* link is opened                                                          *)

IdChars == {"A", "7", "&", "+", "%", "#", " ", "="}

TeamIdsHeld ==
  {<<c>> : c \in IdChars} \cup {<<c, d>> : c \in IdChars, d \in IdChars}
    \cup {<<"%","4","1">>, InviteId} \cup {generateTeamId(rnd) : rnd \in RandomDraws}

InitInvite ==
  /\ vInput \in TeamIdsHeld
  /\ vResult = <<>>
  /\ wl = WlIdle
  /\ now = 0
  /\ loads = 1
  /\ lsRegistration = <<JSONstringifyRegistration(
                          [email |-> <<"a">> \o emailDomain, teamId |-> vInput,
                           isTeamLeader |-> FALSE, timestamp |-> 0])>>
  /\ lsTeams = EmptyTeams
  /\ timeouts = <<>>
  /\ intervals = <<>>
  /\ page = [path |-> "/dashboard.html", t |-> null, leaving |-> FALSE]
  /\ state = InitialState
  /\ dom = InitialDom(TRUE, [path |-> "/dashboard.html", t |-> null])
  /\ session = FreshSession(InitialState)

(* initDashboard(): the invite link is put into the invite input *)
ShowInviteLink ==
  /\ page.path = "/dashboard.html"
  /\ vResult = <<>>
  /\ vResult' = <<generateInviteLink>>
  /\ UNCHANGED <<vInput, regVars, wl>>

(* someone opens the link shown: init() runs on the document it names *)
OpenInviteLink(verifyDisabled) ==
  /\ page.path = "/dashboard.html"
  /\ vResult # <<>> /\ vResult[1] # null
  /\ DocumentLoaded(pageOfURL(vResult[1]), verifyDisabled)
  /\ UNCHANGED <<vInput, vResult, lsRegistration, lsTeams, now, loads, wl>>

NextInvite ==
  \/ ShowInviteLink
  \/ \E verifyDisabled \in BOOLEAN : OpenInviteLink(verifyDisabled)

SpecInvite == InitInvite /\ [][NextInvite]_vars

-----------------------------------------------------------------------------
(* The landing page: one document with the waitlist widget                 *)

ServerEnvs ==
  [SUPABASE_URL : {"", "https://p.supabase.co"},
   SUPABASE_ANON_KEY : {"", "anon"},
   SUPABASE_SERVICE_KEY : {"", "service"}]

InitWaitlist ==
  /\ vInput = <<>> /\ vResult = <<>>
  /\ RegistrationIdle
  /\ \E env \in ServerEnvs, cdn \in BOOLEAN, section \in BOOLEAN,
        auth \in {null, <<[id |-> WlUser, email |-> WlUser]>>},
        table \in CountTables :
       wl = WlPage(env, cdn, section, auth, table)

NextWaitlist ==
  \/ WlInit
  \/ \E arrives \in BOOLEAN : WlConfigResponse(arrives)
  \/ WlSessionResult
  \/ \E i \in 1..MaxCalls, error \in {null} \cup {<<m>> : m \in UpsertErrors} :
       WlUpsertResult(i, error)
  \/ \E i \in 1..MaxFetches, arrives \in BOOLEAN, queryFails \in BOOLEAN :
       WlCountResponse(i, arrives, queryFails)
  \/ WlPollTick
  \/ \E v \in WlEmailInputs : WlClickSend(v)
  \/ \E v \in WlEmailInputs : WlPressEnter(v)
  \/ \E i \in 1..MaxSignIns, error \in {null} \cup {<<m>> : m \in SignInErrors} :
       WlSignInResult(i, error)
  \/ \E email \in {toLowerCase(trim(v)) : v \in WlEmailInputs} : WlFollowLink(email)
  \/ WlAuthStateChange
  \/ WlClickSwitch
  \/ WlSignOutResult
  \/ \E i \in 1..MaxSignIns : WlSignInRejects(i)
  \/ WlGetSessionRejects
  \/ \E i \in 1..MaxCalls : WlUpsertRejects(i)
  \/ WlSignOutRejects

SpecWaitlist == InitWaitlist /\ [][NextWaitlist]_vars

-----------------------------------------------------------------------------
(* C1 as stated: validateEmail returns false for every string that does    *)
(* not end in '@ed.ac.uk', and true for every string that ends in it with  *)
(* a non-empty local part in front.                                        *)
C1_AsStated ==
  vResult # <<>> =>
    /\ ~ endsWith(vInput, emailDomain) => vResult[1] = FALSE
    /\ (endsWith(vInput, emailDomain) /\ Len(vInput) > Len(emailDomain))
         => vResult[1] = TRUE

RECURSIVE StripLeft(_)
StripLeft(s) ==
  IF s # <<>> /\ Head(s) \in WhiteSpace THEN StripLeft(Tail(s)) ELSE s

RECURSIVE StripRight(_)
StripRight(s) ==
  IF s # <<>> /\ s[Len(s)] \in WhiteSpace
    THEN StripRight(SubSeq(s, 1, Len(s) - 1)) ELSE s

SameLetter(c, d) ==
  c = d \/ \E i \in 1..26 : UpperCase[i] = c /\ LowerCase[i] = d

(* C1, amended: validateEmail returns true exactly for the strings that,   *)
(* once the surrounding whitespace is removed, are a non-empty local part  *)
(* followed by '@ed.ac.uk' in any letter case, and false for every other   *)
(* string.                                                                 *)
C1_ValidateEmail ==
  vResult # <<>> =>
    LET m == StripRight(StripLeft(vInput))
        n == Len(emailDomain)
    IN vResult[1] =
         ( /\ Len(m) > n
           /\ \A k \in 1..n : SameLetter(m[Len(m) - n + k], emailDomain[k]) )

(* A call that returned true for a string that does not end in the suffix *)
C1_Witness ==
  /\ vResult = <<TRUE>>
  /\ ~ endsWith(vInput, emailDomain)

-----------------------------------------------------------------------------
(* What the claims speak of                                                *)

storedRecord == JSONparseRegistration(lsRegistration[1])

UpperAlphanumeric == {UpperCase[i] : i \in 1..26} \cup DigitChars

WellFormedCode(code) ==
  Len(code) = 6 /\ \A k \in 1..Len(code) : code[k] \in DigitChars

StoredState == <<lsRegistration, lsTeams, state.teamId, state.isTeamLeader>>

uiVerifiesPending ==
  {i \in pendingOf("verifyOTP") : timeouts[i].caller = "handleVerifyOTP"}

(* C2: in a document that was not entered through an invite link, once a   *)
(* submitOTP was accepted the stored record is a leader's, and its teamId  *)
(* is 8 characters of A-Z and 0-9.                                         *)
C2_LeaderWithGeneratedTeamId ==
  (session.seeded = null /\ session.accepted # <<>>) =>
    /\ lsRegistration # <<>>
    /\ storedRecord.isTeamLeader = TRUE
    /\ Len(storedRecord.teamId) = 8
    /\ \A k \in 1..Len(storedRecord.teamId) :
         storedRecord.teamId[k] \in UpperAlphanumeric

(* The register page, after an address was sent and a code accepted *)
C2_Witness ==
  /\ page.path = "/register.html"
  /\ state.currentEmail # null
  /\ session.accepted # <<>>
  /\ lsRegistration # <<>>

(* C3: in a document entered with an invite link carrying T, the session   *)
(* holds teamId = T and leader = false from the start on, and every        *)
(* accepted submitOTP stores a record with teamId = T and isTeamLeader =   *)
(* false.                                                                  *)
C3_InviteKept ==
  (page.path = "/join.html" /\ page.t # null) =>
    /\ state.teamId = page.t
    /\ state.isTeamLeader = FALSE
    /\ session.accepted # <<>> =>
         /\ lsRegistration # <<>>
         /\ storedRecord.teamId = page.t
         /\ storedRecord.isTeamLeader = FALSE
         /\ \A k \in 1..Len(session.accepted) : session.accepted[k] = page.t

(* An invite link's document in which a code was accepted *)
C3_Witness ==
  /\ page.path = "/join.html" /\ page.t # null
  /\ session.accepted # <<>>

(* C4: a code that is not exactly 6 digits is rejected, by verifyOTP and   *)
(* by handleVerifyOTP, and the stored record, the rosters and the          *)
(* session's teamId and leader flag are after the rejection what they were *)
(* before it.                                                              *)
C4_RejectsWithoutMutation ==
  [][ /\ \A i \in 1..Len(timeouts) :
           (VerifyOTPTimeout(i) /\ ~ WellFormedCode(timeouts[i].arg))
             => (StoredState' = StoredState /\ session'.rejected)
      /\ (ClickVerifyOTP /\ ~ WellFormedCode(getOTPValue))
           => (StoredState' = StoredState /\ timeouts' = timeouts
               /\ dom'.otpError # "") ]_vars

(* A code was rejected while a record was stored *)
C4_Witness ==
  /\ session.rejected
  /\ lsRegistration # <<>>

(* C5: no two verify requests started by the verify control are            *)
(* outstanding at once.                                                    *)
C5_NoConcurrentSubmit == Cardinality(uiVerifiesPending) <= 1

(* C6: while a countdown has not reached zero, the resend control is       *)
(* disabled.                                                               *)
C6_ResendDisabledInCooldown == intervals # <<>> => dom.resendDisabled

EmailsUnique(members) ==
  \A i, j \in 1..Len(members) : members[i].email = members[j].email => i = j

emailIn(members, email) == \E i \in 1..Len(members) : members[i].email = email

(* C7: after every step the emails of every roster are pairwise different, *)
(* and an accepted registration whose email is in the roster of its team   *)
(* already leaves the rosters as they were.                                *)
C7_RosterEmailsUnique ==
  [][ /\ \A k \in DOMAIN lsTeams' : EmailsUnique(JSONparseMembers(lsTeams'[k]))
      /\ \A i \in 1..Len(timeouts) :
           ( /\ VerifyOTPTimeout(i)
             /\ WellFormedCode(timeouts[i].arg)
             /\ emailIn(rosterOf(state'.teamId), state.currentEmail) )
             => lsTeams' = lsTeams ]_vars

(* A registration found its email in the roster of its team *)
C7_Witness ==
  /\ session.dupAdd
  /\ \E k \in DOMAIN lsTeams : Len(lsTeams[k]) >= 1

(* C8: once a submitOTP was accepted in a document, the stored record and  *)
(* the rosters stay what that acceptance left.                             *)
C8_SecondSubmitIsNoOp ==
  session.first # <<>> =>
    /\ lsRegistration = session.first[1][1]
    /\ lsTeams = session.first[1][2]

(* C9 as stated: two accepted submitOTP calls in a document that had no    *)
(* teamId yield two different teamIds.                                     *)
C9_AsStated ==
  (session.seeded = null /\ Len(session.accepted) = 2) =>
    session.accepted[1] # session.accepted[2]

(* C9, amended: in a document that had no teamId, only the first accepted  *)
(* submitOTP generates a teamId; every later accepted call keeps it and    *)
(* resolves with the same teamId.                                          *)
C9_GeneratedOnce ==
  (session.seeded = null /\ session.accepted # <<>>) =>
    /\ session.generated = 1
    /\ \A k \in 1..Len(session.accepted) : session.accepted[k] = state.teamId

(* Two codes were accepted in a document that had no teamId *)
C9_Witness ==
  /\ session.seeded = null
  /\ Len(session.accepted) = 2

saidNotConfigured ==
  wl.config # null /\ ~ wl.config[1].supabaseConfigured

(* C10: once the config endpoint has answered that the service is not      *)
(* configured, init has ended with the informational status and the email  *)
(* form shown, and from then on no auth client exists, no session lookup   *)
(* was made, no handler is wired to the controls, no listener is           *)
(* registered and no Supabase call is in flight.                           *)
C10_NotConfiguredStaysInformational ==
  saidNotConfigured =>
    /\ wl.pc = "done"
    /\ wl.status = Status("Waitlist live. Auth coming soon.")
    /\ wl.formDisplay = "" /\ wl.cardDisplay = "none"
    /\ wl.supabase = null
    /\ wl.lookups = 0
    /\ wl.wired = {}
    /\ ~ wl.listening
    /\ wl.upserts = <<>> /\ wl.signIns = <<>> /\ wl.signOuts = 0

(* The endpoint said not configured, and the user has typed an address and *)
(* clicked send or pressed Enter on that page                              *)
C10_Witness ==
  /\ saidNotConfigured
  /\ wl.emailInput # null

(* C11: handleSession puts the widget into the confirmation state before  *)
(* the upsert, and an upsert the database rejects with a unique-constraint *)
(* violation leaves the card, the form and the status text as they were:   *)
(* a widget in the confirmation state stays in it.                         *)
C11_UniqueViolationKeepsConfirmation ==
  [][ /\ ((WlSessionResult /\ wl.authSession # null) \/ WlAuthStateChange)
           => confirmationShown(wl')
      /\ \A i \in 1..Len(wl.upserts) :
           WlUpsertResult(i, <<UniqueViolation>>)
             => /\ wl'.status = wl.status
                /\ wl'.cardDisplay = wl.cardDisplay
                /\ wl'.formDisplay = wl.formDisplay
                /\ wl'.confirmedEmail = wl.confirmedEmail ]_vars

(* The upsert was rejected with a unique-constraint violation and the      *)
(* widget shows the confirmation state                                     *)
C11_Witness ==
  /\ UniqueViolation \in wl.console
  /\ wl.upserts = <<>>
  /\ confirmationShown(wl)

(* C12: a refreshCount whose fetch fails or whose body does not parse      *)
(* leaves the displayed count as it was, whoever called it: startPolling,  *)
(* the polling interval or upsertWaitlistUser.                             *)
C12_FailedRefreshKeepsCount ==
  [][ \A i \in 1..Len(wl.fetches), queryFails \in BOOLEAN :
        WlCountResponse(i, FALSE, queryFails) => wl'.count = wl.count ]_vars

(* The refresh after joining failed while a count other than the markup's  *)
(* was displayed                                                           *)
C12_Witness ==
  /\ wl.lastFailed \in {<<"init">>, <<"event">>}
  /\ wl.count # <<"0">>

countdownIn(ivs, k, s) ==
  \E j \in 1..Len(ivs) : ivs[j].id = k /\ ivs[j].seconds = s

countdown(k, s) == countdownIn(intervals, k, s)

(* C13: a countdown holds between 1 and otpResendDelay seconds, every tick *)
(* takes one second off it or clears it, and with the timers running a     *)
(* countdown does not stay at any number of seconds: it goes down to zero  *)
(* and is cleared, after which it is not among the intervals any more.     *)
C13_CountdownsAreCleared ==
  /\ [](\A j \in 1..Len(intervals) : intervals[j].seconds \in 1..otpResendDelay)
  /\ [][\A i \in 1..Len(intervals) :
          CountdownTick(i) =>
            \/ /\ intervals[i].seconds = 1
               /\ ~ \E j \in 1..Len(intervals') : intervals'[j].id = intervals[i].id
            \/ countdownIn(intervals', intervals[i].id, intervals[i].seconds - 1)]_vars
  /\ \A k \in 1..MaxIntervals, s \in 1..otpResendDelay :
       countdown(k, s) ~> ~ countdown(k, s)

(* The OTP step was reached, which started a countdown, and no countdown   *)
(* is left                                                                 *)
C13_Witness ==
  /\ dom.step = "otp"
  /\ intervals = <<>>
  /\ ~ dom.resendDisabled

(* The controls of the registration forms are disabled by a handler only  *)
(* while the call that handler awaits is pending                           *)
RegistrationControlsNotStuck ==
  /\ dom.sendDisabled =>
       \E i \in pendingOf("sendOTP") : timeouts[i].caller = "handleSendOTP"
  /\ dom.verifyLoading => (uiVerifiesPending # {} \/ page.leaving)

(* C14: no control is left disabled by a handler that has ended: the send  *)
(* and verify controls of the registration forms and the magic-link button *)
(* are in their disabled or loading state only while the call that will    *)
(* enable them again is pending, whether that call succeeds, fails or      *)
(* ends with an exception.                                                 *)
C14_ControlsNotStuck ==
  /\ RegistrationControlsNotStuck
  /\ wl.sendBtn.disabled => wl.signIns # <<>>

wellFormedPending ==
  \E i \in pendingOf("verifyOTP") : WellFormedCode(timeouts[i].arg)

Verified == session.accepted # <<>> /\ lsRegistration # <<>>

(* C15: a verifyOTP call with a code of exactly 6 digits is accepted when  *)
(* its timer fires, whatever was rejected before it, and with the timers   *)
(* running a valid address sent leads to the OTP step and a well-formed    *)
(* code submitted leads to the session being verified with a record        *)
(* stored.                                                                 *)
C15_WellFormedInputSucceeds ==
  /\ [][\A i \in 1..Len(timeouts) :
          (VerifyOTPTimeout(i) /\ WellFormedCode(timeouts[i].arg))
            => (Len(session'.accepted) > Len(session.accepted)
                  \/ Len(session'.accepted) = 2) /\ lsRegistration' # <<>>]_vars
  /\ (\E i \in pendingOf("sendOTP") : timeouts[i].caller = "handleSendOTP")
       ~> (dom.step = "otp")
  /\ wellFormedPending ~> Verified

(* The session was verified after a verifyOTP call had been rejected *)
C15_Witness ==
  /\ Verified
  /\ session.rejected

(* C16: localStorage holds at most one registration item; every accepted  *)
(* verifyOTP replaces it by the record saveRegistration built in that      *)
(* call, and no other step changes it; getStoredRegistration returns that  *)
(* record, isRegistered is true exactly when there is one, and             *)
(* getStoredTeamId is its teamId, or null when nothing is stored.          *)
C16_SingleRecord ==
  [][ /\ Len(lsRegistration') <= 1
      /\ isRegistered' = (lsRegistration' # <<>>)
      /\ lsRegistration' # <<>> =>
           /\ getStoredRegistration' = <<storedRecord'>>
           /\ getStoredTeamId' = storedRecord'.teamId
      /\ lsRegistration' = <<>> => getStoredTeamId' = null
      /\ \A i \in 1..Len(timeouts) :
           (VerifyOTPTimeout(i) /\ WellFormedCode(timeouts[i].arg))
             => /\ storedRecord'.email = state.currentEmail
                /\ storedRecord'.teamId = state'.teamId
                /\ storedRecord'.isTeamLeader = state'.isTeamLeader
                /\ storedRecord'.timestamp = now'
      /\ lsRegistration' # lsRegistration =>
           \E i \in 1..Len(timeouts) :
             VerifyOTPTimeout(i) /\ WellFormedCode(timeouts[i].arg) ]_vars

(* A later registration of the profile has replaced the record of an       *)
(* earlier one: the stored record names another team than a roster does    *)
C16_Witness ==
  /\ lsRegistration # <<>>
  /\ loads > 1
  /\ session.accepted # <<>>
  /\ \E k \in DOMAIN lsTeams : k # storedRecord.teamId

(* C17 as stated: for every team id the flow can hold, the invite link is *)
(* the join page's URL with the team id as its parameter t, and the        *)
(* document the link opens is seeded with that team id and leader = false. *)
C17_InviteLinkRoundTrip ==
  /\ vResult # <<>> =>
       /\ vResult[1] = Origin \o JoinPath \o <<"?","t","=">> \o vInput
       /\ pageOfURL(vResult[1]) = [path |-> "/join.html", t |-> vInput]
  /\ page.path # "/dashboard.html" =>
       /\ state.teamId = vInput
       /\ state.isTeamLeader = FALSE
       /\ session.seeded = vInput

(* C18: an invalid email and an invalid OTP (wrong length or a non-digit)   *)
(* are rejected by the page itself: no sendOTP or verifyOTP timer is ever  *)
(* pending for such input, a handler that meets such input leaves the      *)
(* timers alone and sets the inline error text, and a non-digit never      *)
(* stays in an OTP field.                                                  *)
C18_InvalidInputRejectedLocally ==
  /\ [](\A i \in 1..Len(timeouts) :
          /\ timeouts[i].fn = "sendOTP" => validateEmail(timeouts[i].arg)
          /\ timeouts[i].fn = "verifyOTP" => isValidOTP(timeouts[i].arg))
  /\ [](\A k \in 1..otpLength : dom.otpDigits[k] \in DigitChars \cup {""})
  /\ [][ /\ \A v \in EmailInputs :
             (ClickSendOTP(v) \/ PressEnterInEmail(v))
               /\ ~ validateEmail(toLowerCase(trim(v)))
               => timeouts' = timeouts /\ dom'.step = "email" /\ dom'.emailError # ""
         /\ ClickVerifyOTP /\ ~ isValidOTP(getOTPValue)
               => timeouts' = timeouts /\ dom'.otpError # "" ]_vars

(* C18 witness: the verify handler met an incomplete code, said so, and no *)
(* call is pending.                                                        *)
C18_Witness ==
  /\ dom.step = "otp"
  /\ dom.otpError = "Please enter the complete OTP"
  /\ Len(getOTPValue) # otpLength
  /\ pendingOf("verifyOTP") = {}

(* The OTP fields are all empty *)
otpCleared(d) == \A k \in 1..otpLength : d.otpDigits[k] = ""

C20_OneRosterPerEmail ==
  \A k1, k2 \in DOMAIN lsTeams :
    \A i \in 1..Len(rosterOf(k1)), j \in 1..Len(rosterOf(k2)) :
      rosterOf(k1)[i].email = rosterOf(k2)[j].email => k1 = k2

(* C21 as stated: in every reachable state the stored registration has an *)
(* entry in the roster of its team id, with the record's email and with    *)
(* isLeader equal to the record's isTeamLeader.                            *)
C21_RecordAgreesWithRoster ==
  lsRegistration # <<>> =>
    \E i \in 1..Len(rosterOf(storedRecord.teamId)) :
      /\ rosterOf(storedRecord.teamId)[i].email = storedRecord.email
      /\ rosterOf(storedRecord.teamId)[i].isLeader = storedRecord.isTeamLeader

(* C22 as stated: when the upsert of the waitlist join returns an error    *)
(* that is no duplicate, or throws, the status line leaves the             *)
(* confirmation for a failure message, the error goes to the console only, *)
(* and no new upsert is started.                                           *)
C22_UnexpectedUpsertFailureSurfaced ==
  [][ \A i \in 1..Len(wl.upserts) :
        (WlUpsertResult(i, <<PermissionDenied>>) \/ WlUpsertRejects(i))
          => /\ wl'.status.text # "You're on the waitlist! We'll be in touch."
             /\ wl'.status.text \notin UpsertErrors
             /\ Len(wl'.upserts) < Len(wl.upserts) ]_vars

(* C23: a document goes from the email step to the OTP step and never      *)
(* back, a code is accepted only on the OTP step with a pending            *)
(* email that passed validateEmail, and so the stored registration and     *)
(* every roster entry carry a non-null email that satisfies validateEmail. *)
C23_ForwardOnlyWithValidEmail ==
  /\ [](lsRegistration # <<>> =>
          storedRecord.email # null /\ validateEmail(storedRecord.email))
  /\ [](\A k \in DOMAIN lsTeams : \A m \in 1..Len(rosterOf(k)) :
          rosterOf(k)[m].email # null /\ validateEmail(rosterOf(k)[m].email))
  /\ [][ /\ \A i \in 1..Len(timeouts) :
             VerifyOTPTimeout(i) /\ isValidOTP(timeouts[i].arg)
               => /\ dom.step = "otp"
                  /\ state.currentEmail # null /\ validateEmail(state.currentEmail)
         /\ dom.step = "otp" /\ page'.path = page.path /\ hasForms
               => dom'.step = "otp" \/ dom' = InitialDom(dom'.verifyDisabled, page') ]_vars

(* C23 witness: a code was accepted on the OTP step and the record with    *)
(* the pending email is stored, its roster entry added.                    *)
C23_Witness ==
  /\ dom.step = "otp" /\ page.leaving
  /\ lsRegistration # <<>>
  /\ storedRecord.email = state.currentEmail
  /\ validateEmail(storedRecord.email)
  /\ emailIn(rosterOf(storedRecord.teamId), storedRecord.email)

(* the sendOTP calls of handleSendOTP that are in flight *)
uiSendsPending ==
  {i \in pendingOf("sendOTP") : timeouts[i].caller = "handleSendOTP"}

(* C24 as stated: at most one send request of the email step is in flight  *)
(* at a time, and while one is in flight neither the send control nor      *)
(* Enter in the email field starts another or changes the pending email.   *)
C24_OneSendInFlight ==
  /\ [](Cardinality(uiSendsPending) <= 1)
  /\ [][ uiSendsPending # {} =>
           \A v \in EmailInputs :
             ClickSendOTP(v) \/ PressEnterInEmail(v)
               => timeouts' = timeouts /\ state'.currentEmail = state.currentEmail ]_vars

(* C25 as stated: the answer of a count request that was started before a  *)
(* request whose answer is already displayed never changes the displayed   *)
(* count, so that after overlapping refreshes the count shown is the one   *)
(* returned to the most recently started refresh.                          *)
C25_OlderAnswerNeverOverwrites ==
  [][ \A i \in 1..Len(wl.fetches), queryFails \in BOOLEAN :
        WlCountResponse(i, TRUE, queryFails) /\ wl.fetches[i].stale
          => wl'.count = wl.count ]_vars

=============================================================================
